---- MODULE Spec2Model ----
(***************************************************************************)
(* Model of scripts/convert-png-to-jpg.py: the batch conversion of the PNG *)
(* files under public/images (and public/square) to JPEG files.            *)
(*                                                                         *)
(* The file system is a function from paths to file contents; a path is a  *)
(* directory and a file name, a file name is a sequence of characters.     *)
(* convert_file is modelled statement by statement (one action per         *)
(* file-system operation), because every one of its operations can raise   *)
(* and the batch loop of main catches what it raises.                      *)
(***************************************************************************)
EXTENDS Integers, Sequences, FiniteSets, TLC

\* ------------------------------------------------------------------ bounds
\* The largest number of PNG files on disk when the tool starts.
MaxFiles == 2
\* The largest number of .jpg files on disk when the tool starts.
MaxJpgs == 1
\* The largest number of I/O faults (an OSError of a file-system call that
\* could have succeeded) injected in a behaviour.
MaxFaults == 1

\* ------------------------------------------------------------ file names
DotPng == <<".", "p", "n", "g">>
DotJpg == <<".", "j", "p", "g">>
SquareSuffix == <<"-", "s", "q", "u", "a", "r", "e">>

IMAGES == "images"
SQUARE == "square"

Max(a, b) == IF a >= b THEN a ELSE b

\* str.lower() on the characters the model uses
LowerChar(c) ==
  CASE c = "P" -> "p"
    [] c = "N" -> "n"
    [] c = "G" -> "g"
    [] OTHER -> c

Lower(s) == [k \in 1..Len(s) |-> LowerChar(s[k])]

\* str.endswith
EndsWith(s, suf) ==
  /\ Len(s) >= Len(suf)
  /\ SubSeq(s, Len(s) - Len(suf) + 1, Len(s)) = suf

\* str.rfind("."): the position of the last dot, 0 when there is none
RFindDot(s) ==
  LET ds == {k \in 1..Len(s) : s[k] = "."}
  IN  IF ds = {} THEN 0 ELSE CHOOSE k \in ds : \A j \in ds : j <= k

\* PurePath.suffix: the last dot and what follows it, unless the dot leads
\* or ends the name
SuffixOf(name) ==
  LET d == RFindDot(name)
  IN  IF d > 1 /\ d < Len(name) THEN SubSeq(name, d, Len(name)) ELSE <<>>

\* PurePath.stem
Stem(name) == SubSeq(name, 1, Len(name) - Len(SuffixOf(name)))

\* PurePath.with_suffix, on a name
WithSuffix(name, suf) == Stem(name) \o suf

\* ------------------------------------------------------------- universe
NameA == <<"a">> \o DotPng
NameASq == <<"a">> \o SquareSuffix \o DotPng
NameASqUp == <<"a">> \o SquareSuffix \o <<".", "P", "N", "G">>

\* The paths of the model: the state names a path by its string, Parse gives
\* its directory and the characters of its file name.
PathTable ==
  { <<"images/a.png",        IMAGES, NameA>>,
    <<"images/a-square.png", IMAGES, NameASq>>,
    <<"images/a-square.PNG", IMAGES, NameASqUp>>,
    <<"square/a.png",        SQUARE, NameA>>,
    <<"images/a.jpg",        IMAGES, <<"a">> \o DotJpg>>,
    <<"images/a-square.jpg", IMAGES, <<"a">> \o SquareSuffix \o DotJpg>>,
    <<"square/a.jpg",        SQUARE, <<"a">> \o DotJpg>> }

Paths == {t[1] : t \in PathTable}
Parse(p) == LET t == CHOOSE t \in PathTable : t[1] = p IN [dir |-> t[2], name |-> t[3]]
\* dir / name
Join(dir, name) == (CHOOSE t \in PathTable : t[2] = dir /\ t[3] = name)[1]
DirOf(p) == Parse(p).dir
NameOf(p) == Parse(p).name

\* The places where a PNG may be when the tool starts.
PngUniverse ==
  {"images/a.png", "images/a-square.png", "images/a-square.PNG", "square/a.png"}

\* line 53: base = png_path.stem
Base(png) == Stem(NameOf(png))

\* line 54: jpg_path = png_path.with_suffix(".jpg")
NaturalJpg(png) == Join(DirOf(png), WithSuffix(NameOf(png), DotJpg))

\* line 70: base.endswith("-square")
IsSquareStem(png) == EndsWith(Base(png), SquareSuffix)

\* lines 72-73: target = square_dir / (base[: -len("-square")] + ".jpg")
SquareTarget(png) ==
  LET clean_base == SubSeq(Base(png), 1, Len(Base(png)) - Len(SquareSuffix))
  IN  Join(SQUARE, clean_base \o DotJpg)

\* The places where a .jpg may be when the tool starts.
JpgUniverse == Paths \ PngUniverse

\* A file: its kind, its size in bytes, whether it is whole, for a PNG the
\* size of its JPEG encoding at the run's quality (the encoder is a function
\* of the pixels and the quality), for a JPEG written by the tool the run
\* and the position in the list of the file it was written for.
NoFile == [kind |-> "none", size |-> 0, jpeg |-> 0, ok |-> TRUE, src |-> <<0, 0>>]
\* a PNG of `size` bytes whose encoding has `jpeg` bytes
PngFile(size, jpeg) == [kind |-> "png", size |-> size, jpeg |-> jpeg, ok |-> TRUE, src |-> <<0, 0>>]
\* a PNG that does not decode
CorruptPng == [kind |-> "png", size |-> 500, jpeg |-> 0, ok |-> FALSE, src |-> <<0, 0>>]
\* the PNG files there may be: one that shrinks, one that grows, a corrupt one
PngFiles == {PngFile(1000, 600), PngFile(500, 700), CorruptPng}
\* a JPEG that was on disk before the first run
PreJpg == [kind |-> "jpg", size |-> 650, jpeg |-> 0, ok |-> TRUE, src |-> <<0, 0>>]
\* the JPEG written in run r for the n-th file of the list; ok = written whole
NewJpg(r, n, size, ok) ==
  [kind |-> "jpg", size |-> size, jpeg |-> 0, ok |-> ok, src |-> <<r, n>>]

VARIABLES
  fs,           \* the files: path -> content, NoFile where there is none
  dirs,         \* the directories that exist, among public/images, public/square
  force,        \* args.force
  move_square,  \* args.move_square
  pc,           \* the statement the program is at
  files,        \* main: the list of discovered PNG paths
  idx,          \* main: the position in files of the file being processed
  converted,    \* main: counters
  skipped,
  errors,
  saved_total,
  input_size,   \* convert_file: local
  jpg_path,     \* convert_file: local
  exit_code,    \* the process's exit status, -1 while it runs
  run,          \* 1 for the first run of the tool, 2 for the re-run
  first,        \* the summary of the first run, for the re-run
  faults,       \* the number of I/O faults injected so far
  fs0,          \* history: fs when the current call of convert_file began
  dirs0,        \* history: dirs when the current call of convert_file began
  fsRun,        \* history: fs when the current run began
  results       \* history: per processed file, the outcome main accounted

vars == <<fs, dirs, force, move_square, pc, files, idx, converted, skipped,
          errors, saved_total, input_size, jpg_path, exit_code, run, first,
          faults, fs0, dirs0, fsRun, results>>

Exists(p) == fs[p] # NoFile
NoPath == ""
NoSummary == [n |-> 0, converted |-> 0, skipped |-> 0, errors |-> 0]

\* ----------------------------------------------------------------- Init
Init ==
  /\ force \in BOOLEAN
  /\ move_square \in BOOLEAN
  /\ dirs \in SUBSET {IMAGES, SQUARE}
  /\ \E P \in SUBSET PngUniverse, J \in SUBSET JpgUniverse :
       /\ Cardinality(P) <= MaxFiles
       /\ Cardinality(J) <= MaxJpgs
       /\ \A p \in P \cup J : DirOf(p) \in dirs
       /\ \E png \in [P -> PngFiles] :
            fs = [p \in Paths |->
                   IF p \in P THEN png[p]
                   ELSE IF p \in J THEN PreJpg
                   ELSE NoFile]
  /\ pc = "start"
  /\ files = <<>>
  /\ idx = 0
  /\ converted = 0
  /\ skipped = 0
  /\ errors = 0
  /\ saved_total = 0
  /\ input_size = 0
  /\ jpg_path = NoPath
  /\ exit_code = -1
  /\ run = 1
  /\ first = NoSummary
  /\ faults = 0
  /\ fs0 = fs
  /\ dirs0 = dirs
  /\ fsRun = fs
  /\ results = <<>>


\* ------------------------------------------------------- collect_png_files
\* lines 25-29: the files under root whose lowered name ends with ".png"
CollectPngFiles(root) ==
  {p \in Paths : DirOf(p) = root /\ Exists(p) /\ EndsWith(Lower(NameOf(p)), DotPng)}

\* os.walk lists a directory in no particular order: every listing of S
Orders(S) ==
  {s \in [1..Cardinality(S) -> S] : \A a, b \in 1..Cardinality(S) : s[a] = s[b] => a = b}

\* ------------------------------------------------------------- policies
\* line 55: if jpg_path.exists() and not force
SkipRule_ignores_force(jpg) == Exists(jpg)
SkipRule_never(jpg) == FALSE
SkipRule(jpg) == Exists(jpg) /\ ~force

\* line 74: if target.exists() and not force
MoveDeclined_never(target) == FALSE
MoveDeclined(target) == Exists(target) /\ ~force

\* lines 61-68: rgb.save(jpg_path, ...) writes `content` at jpg
EncodeEffect_consumes_source(png, jpg, content) ==
  [fs EXCEPT ![jpg] = content, ![png] = NoFile]
EncodeEffect(png, jpg, content) == [fs EXCEPT ![jpg] = content]

\* line 77: jpg_path.replace(target) renames, replacing what is at target
MoveEffect(src, dst) == [fs EXCEPT ![dst] = fs[src], ![src] = NoFile]

\* line 80: png_path.unlink()
Unlink_keeps_file(p) == fs
Unlink(p) == [fs EXCEPT ![p] = NoFile]

\* line 121: max(0, input_size - output_size)
Saved_signed(in, out) == in - out
Saved(in, out) == Max(0, in - out)

\* lines 133-134: if errors: raise SystemExit(1)
ExitStatus_always_success(e) == 0
ExitStatus(e) == IF e # 0 THEN 1 ELSE 0

\* lines 124-126: the except clause ends the iteration, the for loop goes on
ErrorContinuation_aborts == "exit"
ErrorContinuation == "loop"

\* ------------------------------------------------------------------ main
InCall == pc \in {"cf_check", "cf_stat", "cf_encode", "cf_mkdir", "cf_move",
                  "cf_unlink", "cf_outstat"}
cur == files[idx]

Frame_args == UNCHANGED <<force, move_square, run, first>>

\* lines 92-102
Main_Start ==
  /\ pc = "start"
  /\ IF IMAGES \notin dirs
     THEN /\ pc' = "exit"
          /\ exit_code' = 1
          /\ files' = <<>>
     ELSE /\ \E a \in Orders(CollectPngFiles(IMAGES)) :
               \E b \in (IF SQUARE \in dirs
                         THEN Orders(CollectPngFiles(SQUARE)) ELSE {<<>>}) :
                 files' = a \o b
          /\ pc' = "loop"
          /\ exit_code' = -1
  /\ idx' = 0
  /\ converted' = 0 /\ skipped' = 0 /\ errors' = 0 /\ saved_total' = 0
  /\ UNCHANGED <<fs, dirs, input_size, jpg_path, faults, fs0, dirs0, fsRun, results>>
  /\ Frame_args

\* line 114, one more file: the call of convert_file, lines 53-54
Loop_Next ==
  /\ pc = "loop"
  /\ idx < Len(files)
  /\ idx' = idx + 1
  /\ jpg_path' = NaturalJpg(files[idx + 1])
  /\ input_size' = 0
  /\ fs0' = fs
  /\ dirs0' = dirs
  /\ pc' = "cf_check"
  /\ UNCHANGED <<fs, dirs, files, converted, skipped, errors, saved_total,
                 exit_code, faults, fsRun, results>>
  /\ Frame_args

\* lines 128-134, the list is exhausted
Loop_End ==
  /\ pc = "loop"
  /\ idx = Len(files)
  /\ pc' = "exit"
  /\ exit_code' = ExitStatus(errors)
  /\ UNCHANGED <<fs, dirs, files, idx, converted, skipped, errors, saved_total,
                 input_size, jpg_path, faults, fs0, dirs0, fsRun, results>>
  /\ Frame_args

\* lines 116-123: convert_file returned (status, in, out)
Return(status, in, out) ==
  /\ IF status = "converted"
     THEN /\ converted' = converted + 1
          /\ saved_total' = saved_total + Saved(in, out)
          /\ skipped' = skipped
     ELSE /\ skipped' = skipped + 1
          /\ UNCHANGED <<converted, saved_total>>
  /\ results' = Append(results, [file |-> cur, status |-> status, input |-> in,
                                 output |-> out])
  /\ pc' = "loop"
  /\ UNCHANGED <<errors, files, idx, exit_code, fsRun, fs0, dirs0>>
  /\ Frame_args

\* lines 124-126: convert_file raised
Raise ==
  /\ errors' = errors + 1
  /\ results' = Append(results, [file |-> cur, status |-> "errored", input |-> 0,
                                 output |-> 0])
  /\ pc' = ErrorContinuation
  /\ UNCHANGED <<converted, skipped, saved_total, files, idx, exit_code, fsRun,
                 fs0, dirs0>>
  /\ Frame_args

Goto(next) ==
  /\ pc' = next
  /\ UNCHANGED <<files, idx, converted, skipped, errors, saved_total, exit_code,
                 fsRun, fs0, dirs0, results>>
  /\ Frame_args

\* ---------------------------------------------------------- convert_file
\* lines 55-56
CF_Check ==
  /\ pc = "cf_check"
  /\ IF SkipRule(jpg_path)
     THEN Return("skipped", 0, 0)
     ELSE Goto("cf_stat")
  /\ UNCHANGED <<fs, dirs, input_size, jpg_path, faults>>

\* line 58
CF_Stat ==
  /\ pc = "cf_stat"
  /\ IF Exists(cur)
     THEN /\ input_size' = fs[cur].size
          /\ Goto("cf_encode")
     ELSE /\ Raise
          /\ UNCHANGED input_size
  /\ UNCHANGED <<fs, dirs, jpg_path, faults>>

\* lines 59-70: decode, flatten, encode; a PNG that does not decode raises
\* before the output file is opened
CF_Encode ==
  /\ pc = "cf_encode"
  /\ IF fs[cur].ok
     THEN /\ fs' = EncodeEffect(cur, jpg_path, NewJpg(run, idx, fs[cur].jpeg, TRUE))
          /\ Goto(IF move_square /\ IsSquareStem(cur) THEN "cf_mkdir" ELSE "cf_unlink")
     ELSE /\ Raise
          /\ UNCHANGED fs
  /\ UNCHANGED <<dirs, input_size, jpg_path, faults>>

\* line 71
CF_Mkdir ==
  /\ pc = "cf_mkdir"
  /\ dirs' = dirs \cup {SQUARE}
  /\ Goto("cf_move")
  /\ UNCHANGED <<fs, input_size, jpg_path, faults>>

\* lines 72-78
CF_Move ==
  /\ pc = "cf_move"
  /\ LET target == SquareTarget(cur)
     IN  IF MoveDeclined(target)
         THEN UNCHANGED <<fs, jpg_path>>
         ELSE /\ fs' = MoveEffect(jpg_path, target)
              /\ jpg_path' = target
  /\ Goto("cf_unlink")
  /\ UNCHANGED <<dirs, input_size, faults>>

\* line 80
CF_Unlink ==
  /\ pc = "cf_unlink"
  /\ IF Exists(cur)
     THEN /\ fs' = Unlink(cur)
          /\ Goto("cf_outstat")
     ELSE /\ Raise
          /\ UNCHANGED fs
  /\ UNCHANGED <<dirs, input_size, jpg_path, faults>>

\* lines 81-82
CF_OutStat ==
  /\ pc = "cf_outstat"
  /\ IF Exists(jpg_path)
     THEN Return("converted", input_size, fs[jpg_path].size)
     ELSE Raise
  /\ UNCHANGED <<fs, dirs, input_size, jpg_path, faults>>

\* An OSError of stat (58), open (59), mkdir (71), replace (77), unlink (80)
\* or stat (81): the call fails and changes nothing.
CF_IOError ==
  /\ pc \in {"cf_stat", "cf_encode", "cf_mkdir", "cf_move", "cf_unlink", "cf_outstat"}
  /\ faults < MaxFaults
  /\ faults' = faults + 1
  /\ Raise
  /\ UNCHANGED <<fs, dirs, input_size, jpg_path>>

\* An OSError of save (61-68) after the output file was opened for writing:
\* a truncated JPEG is left at jpg_path, in place of what was there.
CF_EncodeError ==
  /\ pc = "cf_encode"
  /\ fs[cur].ok
  /\ faults < MaxFaults
  /\ faults' = faults + 1
  /\ fs' = EncodeEffect(cur, jpg_path, NewJpg(run, idx, 0, FALSE))
  /\ Raise
  /\ UNCHANGED <<dirs, input_size, jpg_path>>

\* The tool is started again with the same flags, on what the run left.
Rerun ==
  /\ pc = "exit"
  /\ run = 1
  /\ run' = 2
  /\ first' = [n |-> Len(files), converted |-> converted, skipped |-> skipped,
               errors |-> errors]
  /\ pc' = "start"
  /\ files' = <<>>
  /\ idx' = 0
  /\ converted' = 0 /\ skipped' = 0 /\ errors' = 0 /\ saved_total' = 0
  /\ input_size' = 0
  /\ jpg_path' = NoPath
  /\ exit_code' = -1
  /\ fs0' = fs
  /\ dirs0' = dirs
  /\ fsRun' = fs
  /\ results' = <<>>
  /\ UNCHANGED <<fs, dirs, force, move_square, faults>>

Next ==
  \/ Main_Start
  \/ Loop_Next
  \/ Loop_End
  \/ CF_Check
  \/ CF_Stat
  \/ CF_Encode
  \/ CF_Mkdir
  \/ CF_Move
  \/ CF_Unlink
  \/ CF_OutStat
  \/ CF_IOError
  \/ CF_EncodeError

\* One run of the tool.
Spec == Init /\ [][Next]_vars

\* Two runs of the tool in a row.
NextRerun ==
  \/ Next
  \/ Rerun

SpecRerun == Init /\ [][NextRerun]_vars

TypeOK ==
  /\ pc \in {"start", "loop", "exit", "cf_check", "cf_stat", "cf_encode",
             "cf_mkdir", "cf_move", "cf_unlink", "cf_outstat"}
  /\ idx \in 0..Len(files)
  /\ InCall => idx >= 1
  /\ faults \in 0..MaxFaults
  /\ run \in {1, 2}

\* ================================================================ claims
\* The state right after the processing of files[idx] ended (convert_file
\* returned or raised, and main accounted the outcome).
Ended == pc = "loop" /\ idx >= 1 /\ Len(results) = idx
last == results[idx]
lastFile == files[idx]
\* the JPEG this call encodes, whole
Encoded == NewJpg(run, idx, fs0[lastFile].jpeg, TRUE)

\* <square_dir>/<stem without "-square">.jpg, from the characters of the name
RelocatedPath(f) ==
  CHOOSE t \in Paths :
    /\ DirOf(t) = SQUARE
    /\ EndsWith(NameOf(t), DotJpg)
    /\ \E ext \in {SuffixOf(NameOf(q)) : q \in Paths} :
         /\ NameOf(f) = SubSeq(NameOf(t), 1, Len(NameOf(t)) - Len(DotJpg))
                          \o SquareSuffix \o ext

SquareCase(f) == move_square /\ EndsWith(Stem(NameOf(f)), SquareSuffix)

RECURSIVE SavedOver(_)
\* the sum of max(0, input - output) over the converted entries of a log
SavedOver(log) ==
  IF log = <<>> THEN 0
  ELSE LET r == log[Len(log)]
           d == IF r.status = "converted" /\ r.input > r.output
                THEN r.input - r.output ELSE 0
       IN  SavedOver(SubSeq(log, 1, Len(log) - 1)) + d

Count(st) == Cardinality({k \in 1..Len(results) : results[k].status = st})

\* C1: when convert_file returns "converted", the source PNG is gone from
\* its path and the JPEG encoded for it is at its natural path or at its
\* relocated path in the square directory.
C1_ConvertedPostcondition ==
  (Ended /\ last.status = "converted") =>
    /\ fs[lastFile] = NoFile
    /\ \/ fs[NaturalJpg(lastFile)] = Encoded
       \/ /\ SquareCase(lastFile)
          /\ fs[RelocatedPath(lastFile)] = Encoded

C1_Witness ==
  /\ Ended /\ last.status = "converted"
  /\ force /\ move_square
  /\ fs0[NaturalJpg(lastFile)] # NoFile
  /\ fs[NaturalJpg(lastFile)] = NoFile
  /\ fs[lastFile] = NoFile

\* C2 (as stated): whenever the processing of a file ended "errored", its
\* PNG is still at its path.
C2_ErroredKeepsPng ==
  (Ended /\ last.status = "errored") => fs[lastFile] # NoFile

\* C2 (amended): an exception raised at any step of convert_file up to and
\* including the delete (stat, decode, encode, mkdir, move, unlink) is
\* counted with the PNG still at its path; only an exception of the final
\* stat of the JPEG, after the delete, is counted with the PNG gone.
C2_ErrorBeforeDeleteKeepsPng ==
  [][(InCall /\ errors' = errors + 1) =>
       IF pc = "cf_outstat" THEN fs'[cur] = NoFile ELSE fs'[cur] # NoFile]_vars

C2_Witness ==
  /\ Ended /\ last.status = "errored"
  /\ fs[lastFile] # NoFile
  /\ fs[NaturalJpg(lastFile)] = Encoded

\* C3: convert_file returns ("skipped", 0, 0) exactly when the natural
\* output path existed at the call and force is false, and then nothing in
\* the file system changed; otherwise (so always under force) the PNG is
\* encoded over whatever was at the natural path.
C3_SkipRule ==
  /\ Ended =>
       /\ (last.status = "skipped") <=> (fs0[NaturalJpg(lastFile)] # NoFile /\ ~force)
       /\ last.status = "skipped" =>
            /\ last.input = 0 /\ last.output = 0
            /\ fs = fs0
            /\ dirs = dirs0
  /\ pc \in {"cf_stat", "cf_encode"} => (fs0[NaturalJpg(cur)] = NoFile \/ force)
  /\ pc \in {"cf_mkdir", "cf_move"} =>
       fs[NaturalJpg(cur)] = NewJpg(run, idx, fs0[cur].jpeg, TRUE)

C3_Witness ==
  /\ Ended /\ last.status = "skipped"
  /\ move_square /\ SquareCase(lastFile)
  /\ fs[lastFile] # NoFile
  /\ fs[RelocatedPath(lastFile)] = NoFile

\* C4: the files of the list are handed to convert_file once each, in list
\* order, whatever the earlier files raised; each adds one to exactly one of
\* converted, skipped, errors, so that at the end the three add up to the
\* number of discovered files.
C4_ContinueOnError ==
  /\ Len(results) = (IF InCall THEN idx - 1 ELSE idx)
  /\ \A k \in 1..Len(results) : results[k].file = files[k]
  /\ \A j, k \in 1..Len(files) : files[j] = files[k] => j = k
  /\ converted = Count("converted")
  /\ skipped = Count("skipped")
  /\ errors = Count("errored")
  /\ converted + skipped + errors = Len(results)
  /\ pc = "exit" => Len(results) = Len(files)

\* one corrupt PNG and one valid PNG: Converted: 1, Errors: 1
C4_Witness ==
  /\ pc = "exit"
  /\ Len(files) = 2
  /\ results[1].status = "errored" /\ fsRun[files[1]] = CorruptPng
  /\ results[2].status = "converted"
  /\ converted = 1 /\ errors = 1 /\ skipped = 0
  /\ exit_code = 1

\* C5: without public/images the run exits 1 with no file discovered and
\* no change of the file system; otherwise it exits 1 exactly when the
\* errored count is not zero, and 0 in every other case.
C5_ExitStatus ==
  /\ pc # "exit" => exit_code = -1
  /\ pc = "exit" =>
       IF IMAGES \notin dirs
       THEN /\ exit_code = 1
            /\ files = <<>> /\ results = <<>>
            /\ fs = fsRun /\ dirs = dirs0
       ELSE /\ exit_code \in {0, 1}
            /\ exit_code = 1 <=> errors # 0

C5_Witness ==
  /\ pc = "exit"
  /\ IMAGES \notin dirs
  /\ SQUARE \in dirs
  /\ fs["square/a.png"] # NoFile
  /\ exit_code = 1

C8_SavedTotal ==
  /\ [](/\ saved_total = SavedOver(results)
        /\ saved_total >= 0
        /\ \A k \in 1..Len(results) :
             IF results[k].status = "converted"
             THEN /\ results[k].input = fsRun[results[k].file].size
                  /\ results[k].output = fsRun[results[k].file].jpeg
             ELSE results[k].input = 0 /\ results[k].output = 0)
  /\ [][saved_total' >= saved_total]_vars

\* (1000, 600) and (500, 700): 400
C8_Witness ==
  /\ pc = "exit"
  /\ Len(results) = 2
  /\ results[1].status = "converted" /\ results[1].input = 1000 /\ results[1].output = 600
  /\ results[2].status = "converted" /\ results[2].input = 500 /\ results[2].output = 700
  /\ saved_total = 400

\* C9: in every state of a call before the delete has run the PNG is at
\* its path; the delete runs with the JPEG encoded whole and the relocation
\* step over (moved, or declined); the PNG of the call disappears in the
\* delete step only, and an exception of the stat, decode, encode, mkdir or
\* move step is counted with the PNG in place.
C9_DeleteAfterEncode ==
  /\ []((InCall /\ pc # "cf_outstat") => fs[cur] = fs0[cur] /\ fs[cur] # NoFile)
  /\ [](pc = "cf_unlink" =>
          /\ fs[jpg_path] = NewJpg(run, idx, fs0[cur].jpeg, TRUE)
          /\ IF SquareCase(cur) /\ (fs0[RelocatedPath(cur)] = NoFile \/ force)
             THEN jpg_path = RelocatedPath(cur) /\ fs[NaturalJpg(cur)] = NoFile
             ELSE jpg_path = NaturalJpg(cur))
  /\ [][\A p \in PngUniverse :
          (fs[p] # NoFile /\ fs'[p] = NoFile) => (pc = "cf_unlink" /\ p = cur)]_vars
  /\ [][(pc \in {"cf_stat", "cf_encode", "cf_mkdir", "cf_move"} /\ errors' = errors + 1)
          => fs'[cur] = fs0[cur]]_vars

\* the move failed after the encode: errored, the PNG in place
C9_Witness ==
  /\ Ended /\ last.status = "errored"
  /\ SquareCase(lastFile)
  /\ SQUARE \in dirs /\ SQUARE \notin dirs0
  /\ fs[lastFile] # NoFile
  /\ fs[NaturalJpg(lastFile)] = Encoded

\* C10: in a run without force no .jpg file is overwritten: a JPEG that was
\* there when the run began is unchanged, the encode writes where no file
\* was when the call began, a move goes where no file is, and the JPEG
\* written for a converted PNG is still whole on disk whatever the later
\* conversions of the run did.
C10_NoOverwriteWithoutForce ==
  ~force =>
    /\ \A p \in Paths : fsRun[p].kind = "jpg" => fs[p] = fsRun[p]
    /\ pc \in {"cf_stat", "cf_encode"} =>
         fs0[NaturalJpg(cur)] = NoFile /\ fs[NaturalJpg(cur)] = NoFile
    /\ (InCall /\ jpg_path # NaturalJpg(cur)) =>
         /\ fs0[jpg_path] = NoFile
         /\ fs[jpg_path] = NewJpg(run, idx, fs0[cur].jpeg, TRUE)
    /\ \A k \in 1..Len(results) :
         results[k].status = "converted" =>
           \E p \in Paths : fs[p] = NewJpg(run, k, results[k].output, TRUE)

\* two PNGs with one relocated path: the first is moved there, the second
\* stays at its natural path
C10_Witness ==
  /\ ~force /\ move_square
  /\ pc = "exit"
  /\ Len(results) = 2
  /\ results[1].status = "converted" /\ results[2].status = "converted"
  /\ SquareCase(files[1]) /\ SquareCase(files[2])
  /\ RelocatedPath(files[1]) = RelocatedPath(files[2])
  /\ fs[RelocatedPath(files[1])] = NewJpg(run, 1, results[1].output, TRUE)
  /\ fs[NaturalJpg(files[2])] = NewJpg(run, 2, results[2].output, TRUE)
====
